---- MODULE Spec2Model ----
(***************************************************************************)
(* Model of src/src/feed/fetcher.go (package feed): the content sanitizer  *)
(* (stripMarkdown, cleanHTML), the field resolvers (parseDate,             *)
(* getDescription, getAuthor), the feed parser (FetchFeed) and the         *)
(* concurrent aggregator (FetchAllFeeds).                                  *)
(*                                                                         *)
(* Text is a sequence of bytes; a byte is written as a one-character       *)
(* string, except the two bytes of U+00A0 (NBSP) in UTF-8, written "C2"    *)
(* and "A0", the backquote, written "BQ", and the vertical tab, written    *)
(* "VT".  Short strings that the code only compares with "" and copies     *)
(* (title, link, author, date strings, URLs) are TLA+ strings.             *)
(***************************************************************************)
EXTENDS Integers, Sequences, FiniteSets, Bags, TLC

VARIABLES
    feeds,      \* FetchAllFeeds: the argument, a sequence of URLs
    mainPc,     \* FetchAllFeeds: position of the calling goroutine
    launched,   \* FetchAllFeeds: number of loop iterations done (goroutines started)
    wg,         \* sync.WaitGroup counter
    mu,         \* sync.Mutex: 0 when free, else the goroutine holding it
    posts,      \* the shared slice `posts`
    tpc,        \* per goroutine: its position
    feedPosts,  \* per goroutine: the local feedPosts
    failed,     \* per goroutine: err != nil
    logged,     \* URLs mentioned in "err fetching" log lines
    merged,     \* value of `posts` when sort.Slice was entered
    result,     \* the value returned by FetchAllFeeds
    ppc,        \* pure-function harness: "none", "call" or "done"
    arg,        \* pure-function harness: the argument
    ret         \* pure-function harness: the value returned

vars == <<feeds, mainPc, launched, wg, mu, posts, tpc, feedPosts, failed,
          logged, merged, result, ppc, arg, ret>>

aggVars == <<feeds, mainPc, launched, wg, mu, posts, tpc, feedPosts, failed,
             logged, merged, result>>

(***************************************************************************)
(* Generic helpers on sequences.                                           *)
(***************************************************************************)
Last(s) == s[Len(s)]

Front(s) == SubSeq(s, 1, Len(s) - 1)

Range(s) == {s[k] : k \in 1..Len(s)}

Min(S) == CHOOSE x \in S : \A y \in S : x <= y

Max(S) == CHOOSE x \in S : \A y \in S : y <= x

RECURSIVE SeqsUpTo(_, _)
\* all sequences over S of length at most n
SeqsUpTo(S, n) ==
    IF n = 0 THEN {<<>>}
    ELSE LET shorter == SeqsUpTo(S, n - 1)
         IN  shorter \cup {Append(s, x) : s \in shorter, x \in S}

RECURSIVE Flatten(_)
\* concatenation of a sequence of sequences
Flatten(ss) == IF ss = <<>> THEN <<>> ELSE Head(ss) \o Flatten(Tail(ss))

(***************************************************************************)
(* stripMarkdown (fetcher.go:32-39).                                       *)
(***************************************************************************)
invalidChars ==
    <<"*", "_", "#", "BQ", ">", "<", "[", "]", "(", ")", "!", "~", "|", "{", "}", "+">>

\* strings.ReplaceAll(input, char, "") for a one-byte char
ReplaceAll(input, char) == SelectSeq(input, LAMBDA c : c # char)

RECURSIVE stripFrom(_, _)
\* the loop of stripMarkdown, from index k of invalidChars
stripFrom(input, k) ==
    IF k > Len(invalidChars) THEN input
    ELSE stripFrom(ReplaceAll(input, invalidChars[k]), k + 1)

stripMarkdown(input) == stripFrom(input, 1)

(***************************************************************************)
(* cleanHTML (fetcher.go:41-65).                                           *)
(***************************************************************************)
\* regexp "<[^>]*>" replaced by "": the leftmost match starts at the first
\* "<" that has a ">" after it and ends at the first ">" after that "<"; the
\* search goes on after the match
RECURSIVE removeTags(_)
removeTags(s) ==
    LET gts    == {r \in 1..Len(s) : s[r] = ">"}
        starts == {q \in 1..Len(s) : s[q] = "<" /\ \E r \in gts : r > q}
    IN  IF starts = {} THEN s
        ELSE LET q == Min(starts)
                 r == Min({x \in gts : x > q})
             IN  SubSeq(s, 1, q - 1) \o removeTags(SubSeq(s, r + 1, Len(s)))

\* bytes the entity scanner of html.UnescapeString takes as part of a name
\* (the texts of the model hold no upper-case letters and no digits)
Letters == {"a", "b", "g", "l", "m", "n", "p", "s", "t"}

NBSP == <<"C2", "A0">>

\* the entries of html's entity table over Letters, <<>> when there is none
entity(name) ==
    CASE name \in {<<"l", "t", ";">>, <<"l", "t">>} -> <<"<">>
      [] name \in {<<"g", "t", ";">>, <<"g", "t">>} -> <<">">>
      [] name \in {<<"a", "m", "p", ";">>, <<"a", "m", "p">>} -> <<"&">>
      [] name \in {<<"n", "b", "s", "p", ";">>, <<"n", "b", "s", "p">>} -> NBSP
      [] OTHER -> <<>>

longestEntityWithoutSemicolon == 6

\* html.unescapeEntity on s, s[1] = "&": <<bytes written, bytes consumed>>
unescapeEntity(s) ==
    LET n == Len(s)
        \* index after the maximal run of name bytes starting at 2
        stop == Min({k \in 2..n : s[k] \notin Letters} \cup {n + 1})
        i == IF stop <= n /\ s[stop] = ";" THEN stop + 1 ELSE stop
        entityName == SubSeq(s, 2, i - 1)
        maxLen == IF Len(entityName) - 1 > longestEntityWithoutSemicolon
                  THEN longestEntityWithoutSemicolon ELSE Len(entityName) - 1
        prefixes == {j \in 2..maxLen : entity(SubSeq(entityName, 1, j)) # <<>>}
    IN  IF entityName # <<>> /\ entity(entityName) # <<>>
        THEN <<entity(entityName), i - 1>>
        ELSE IF prefixes # {}
        THEN LET j == Max(prefixes)
             IN  <<entity(SubSeq(entityName, 1, j)), j + 1>>
        ELSE <<SubSeq(s, 1, i - 1), i - 1>>

RECURSIVE UnescapeString(_)
\* html.UnescapeString: one pass, left to right, from "&" to "&"; unescaped
\* output is not rescanned
UnescapeString(s) ==
    LET amps == {q \in 1..Len(s) : s[q] = "&"}
    IN  IF amps = {} THEN s
        ELSE LET q == Min(amps)
                 r == unescapeEntity(SubSeq(s, q, Len(s)))
             IN  SubSeq(s, 1, q - 1) \o r[1]
                     \o UnescapeString(SubSeq(s, q + r[2], Len(s)))

\* regexp class \s: [\t\n\f\r ]
RegexSpace == {" ", "\n", "\t", "\r", "\f"}

RECURSIVE collapseSpace(_)
\* regexp "\s+" replaced by " ": each maximal run, left to right
collapseSpace(s) ==
    LET spaces == {q \in 1..Len(s) : s[q] \in RegexSpace}
    IN  IF spaces = {} THEN s
        ELSE LET q == Min(spaces)
                 e == Min({k \in q..Len(s) : k + 1 \notin spaces})
             IN  SubSeq(s, 1, q - 1) \o <<" ">>
                     \o collapseSpace(SubSeq(s, e + 1, Len(s)))

\* one-byte white space of unicode.IsSpace; NBSP is the two-byte one
AsciiSpace == RegexSpace \cup {"VT"}

RECURSIVE trimLeft(_)
trimLeft(s) ==
    IF s # <<>> /\ Head(s) \in AsciiSpace THEN trimLeft(Tail(s))
    ELSE IF Len(s) >= 2 /\ SubSeq(s, 1, 2) = NBSP THEN trimLeft(SubSeq(s, 3, Len(s)))
    ELSE s

RECURSIVE trimRight(_)
trimRight(s) ==
    IF s # <<>> /\ Last(s) \in AsciiSpace THEN trimRight(Front(s))
    ELSE IF Len(s) >= 2 /\ SubSeq(s, Len(s) - 1, Len(s)) = NBSP
         THEN trimRight(SubSeq(s, 1, Len(s) - 2))
    ELSE s

\* a trim of the left end only, as strings.TrimLeft would do
TrimSpaceLeftOnly(s) == trimLeft(s)

\* strings.TrimSpace
TrimSpace(s) == trimRight(trimLeft(s))

\* a truncation that appends the ellipsis and forgets to cut
truncateNoCut(cleaned, maxLength) ==
    IF Len(cleaned) > maxLength THEN cleaned \o <<".", ".", ".">> ELSE cleaned

\* the truncation step of cleanHTML (fetcher.go:54-62)
truncate(cleaned, maxLength) ==
    IF Len(cleaned) > maxLength
    THEN LET cut == SubSeq(cleaned, 1, maxLength)
             cut2 == IF Last(cut) = " " \/ Last(cut) = "." THEN Front(cut) ELSE cut
         IN  cut2 \o <<".", ".", ".">>
    ELSE cleaned

cleanHTML(input, maxLength) ==
    TrimSpace(truncate(collapseSpace(UnescapeString(removeTags(input))), maxLength))

(***************************************************************************)
(* parseDate (fetcher.go:67-89).                                           *)
(***************************************************************************)
\* the layouts of dateFormats (fetcher.go:17-29), in order
dateFormats ==
    <<"RFC1123Z", "RFC1123", "RFC3339", "RFC3339Nano", "2006-01-02T15:04:05Z",
      "2006-01-02 15:04:05 -0700", "02 Jan 2006 15:04 -0700",
      "Mon, 02 Jan 2006 15:04:05 GMT", "02 Jan 2006 15:04 +0000", "2006-01-02",
      "January 2, 2006">>

\* the date strings of the model: the empty string, four dates in four
\* different notations (two of them the same instant) and one that is no date
DateStrings ==
    {"", "Mon, 02 Jan 2023 10:00:00 GMT", "2023-01-01", "2023-06-01T00:00:00Z",
     "June 1, 2023", "yesterday"}

\* time.Parse(format, dateStr) on DateStrings: the layouts each string matches
\* and the instant it denotes, in seconds since the Unix epoch
ParseOk(format, dateStr) ==
    CASE dateStr = "Mon, 02 Jan 2023 10:00:00 GMT" ->
             format \in {"RFC1123", "Mon, 02 Jan 2006 15:04:05 GMT"}
      [] dateStr = "2023-01-01" -> format = "2006-01-02"
      [] dateStr = "2023-06-01T00:00:00Z" ->
             format \in {"RFC3339", "RFC3339Nano", "2006-01-02T15:04:05Z"}
      [] dateStr = "June 1, 2023" -> format = "January 2, 2006"
      [] OTHER -> FALSE

ParseValue(dateStr) ==
    CASE dateStr = "Mon, 02 Jan 2023 10:00:00 GMT" -> 1672653600
      [] dateStr = "2023-01-01" -> 1672531200
      [] dateStr = "2023-06-01T00:00:00Z" -> 1685577600
      [] dateStr = "June 1, 2023" -> 1685577600
      [] OTHER -> 0

\* the values time.Now() returns in the model, later than every feed date
NowValues == {1700000000, 1700000001}

dateCandidates(item) == <<item.PubDate, item.Date, item.Published, item.Updated>>

\* the inner loop: whether some layout parses dateStr
parsesAny(dateStr) == \E k \in 1..Len(dateFormats) : ParseOk(dateFormats[k], dateStr)

RECURSIVE parseFrom(_, _, _)
\* the outer loop of parseDate from candidate k on; now is what time.Now() returns
parseFrom(cands, k, now) ==
    IF k > Len(cands) THEN now
    ELSE IF cands[k] = "" THEN parseFrom(cands, k + 1, now)
    ELSE IF parsesAny(cands[k]) THEN ParseValue(cands[k])
    ELSE parseFrom(cands, k + 1, now)

RECURSIVE parseCommitFrom(_, _, _)
\* a resolver that stops at the first non-empty candidate, parseable or not
parseCommitFrom(cands, k, now) ==
    IF k > Len(cands) THEN now
    ELSE IF cands[k] = "" THEN parseCommitFrom(cands, k + 1, now)
    ELSE IF parsesAny(cands[k]) THEN ParseValue(cands[k])
    ELSE now

parseDateCommit(item, now) == parseCommitFrom(dateCandidates(item), 1, now)

parseDate(item, now) == parseFrom(dateCandidates(item), 1, now)

(***************************************************************************)
(* getDescription (fetcher.go:91-106) and getAuthor (fetcher.go:108-116).  *)
(***************************************************************************)
maxLength == 200

Placeholder ==
    <<"V", "i", "s", "i", "t", " ", "p", "o", "s", "t", " ", "f", "o", "r", " ",
      "d", "e", "t", "a", "i", "l", "s", ".">>

descCandidates(item) == <<item.Description, item.Summary, item.Content, item.Encoded>>

\* cleanHTML then stripMarkdown, as getDescription composes them
sanitize(candidate) == stripMarkdown(cleanHTML(candidate, maxLength))

RECURSIVE descFrom(_, _)
descFrom(cands, k) ==
    IF k > Len(cands) THEN Placeholder
    ELSE IF cands[k] # <<>> THEN sanitize(cands[k])
    ELSE descFrom(cands, k + 1)

getDescription(item) == descFrom(descCandidates(item), 1)

\* an author resolver without the channel-title fallback
getAuthorNoChannel(item, channelTitle) ==
    IF item.Author # "" THEN item.Author ELSE item.Creator

getAuthor(item, channelTitle) ==
    IF item.Author # "" THEN item.Author
    ELSE IF item.Creator # "" THEN item.Creator
    ELSE channelTitle

(***************************************************************************)
(* FetchFeed (fetcher.go:118-158).                                         *)
(***************************************************************************)
\* the loop body: the BlogPost built from one item
BlogPost(item, channelTitle, now) ==
    [Title   |-> item.Title,
     Link    |-> item.Link,
     Date    |-> parseDate(item, now),
     Author  |-> getAuthor(item, channelTitle),
     Summary |-> getDescription(item)]

\* a selection that never looks at the entries under the root
selectItemsNoRoot(feed) ==
    IF Len(feed.Channel.Items) # 0 THEN feed.Channel.Items ELSE feed.Channel.Entries

\* the item list FetchFeed iterates over (fetcher.go:138-144)
selectItems(feed) ==
    IF Len(feed.Channel.Items) # 0 THEN feed.Channel.Items
    ELSE IF Len(feed.Channel.Entries) # 0 THEN feed.Channel.Entries
    ELSE feed.Entries

\* resp is what the network and the XML decoder give for the URL: resp.err is
\* "" or the step that failed, resp.feed the decoded tree; clock[k] is what
\* time.Now() returns while item k is built
FetchFeed(resp, clock) ==
    IF resp.err # "" THEN [posts |-> <<>>, err |-> resp.err]
    ELSE LET items == selectItems(resp.feed)
         IN  [posts |-> [k \in 1..Len(items) |->
                            BlogPost(items[k], resp.feed.Channel.Title, clock[k])],
              err   |-> ""]

(***************************************************************************)
(* The state outside a call of FetchAllFeeds, and outside the harness.     *)
(***************************************************************************)
AggIdle ==
    /\ feeds = <<>>
    /\ mainPc = "none"
    /\ launched = 0
    /\ wg = 0
    /\ mu = 0
    /\ posts = <<>>
    /\ tpc = <<>>
    /\ feedPosts = <<>>
    /\ failed = <<>>
    /\ logged = {}
    /\ merged = <<>>
    /\ result = <<>>

(***************************************************************************)
(* The sanitizer on its own: getDescription's stripMarkdown(cleanHTML(     *)
(* candidate, 200)) (fetcher.go:101) for every text of Texts.              *)
(***************************************************************************)
MaxTail == 2

FillSlack == 1

Tokens ==
    {<<"<", "b", ">">>, <<"<">>, <<">">>, <<" ">>, <<"\n">>, <<".">>, <<"*">>,
     <<"&", "l", "t", ";">>, <<"&", "l", "t">>, <<"&", "n", "b", "s", "p", ";">>}

FillLens == {0, 1} \cup ((maxLength - FillSlack)..(maxLength + 1))

Fill(n) == [k \in 1..n |-> "a"]

\* at most one token, then a run of "a", then at most MaxTail tokens
Texts ==
    {head \o Fill(n) \o Flatten(tail) :
        head \in Tokens \cup {<<>>}, n \in FillLens, tail \in SeqsUpTo(Tokens, MaxTail)}

InitSan ==
    /\ AggIdle
    /\ ppc = "call"
    /\ arg \in Texts
    /\ ret = <<>>

\* the inner call, cleanHTML(candidate, 200)
CallCleanHTML ==
    /\ ppc = "call"
    /\ ret' = cleanHTML(arg, maxLength)
    /\ ppc' = "cleaned"
    /\ UNCHANGED <<arg, aggVars>>

\* the outer call, stripMarkdown of what cleanHTML returned
CallStripMarkdown ==
    /\ ppc = "cleaned"
    /\ ret' = stripMarkdown(ret)
    /\ ppc' = "done"
    /\ UNCHANGED <<arg, aggVars>>

NextSan == CallCleanHTML \/ CallStripMarkdown

SpecSan == InitSan /\ [][NextSan]_vars

\* one-byte and two-byte white space at either end of a text
StartsWithSpace(s) ==
    s # <<>> /\ (Head(s) \in AsciiSpace \/ (Len(s) >= 2 /\ SubSeq(s, 1, 2) = NBSP))

EndsWithSpace(s) ==
    s # <<>> /\ (Last(s) \in AsciiSpace
                    \/ (Len(s) >= 2 /\ SubSeq(s, Len(s) - 1, Len(s)) = NBSP))

\* C6: the sanitized summary is at most maxLength + 3 bytes long and holds
\* none of the reserved markup characters
C6_SanitizedBounded ==
    ppc = "done" =>
        /\ Len(ret) <= maxLength + 3
        /\ \A k \in 1..Len(ret) : ret[k] \notin Range(invalidChars)

\* C6 witness: a text longer than maxLength holding a reserved character was
\* sanitized to exactly maxLength + 3 bytes
C6_Witness ==
    /\ ppc = "done"
    /\ Len(arg) > maxLength
    /\ \E k \in 1..Len(arg) : arg[k] \in Range(invalidChars)
    /\ Len(ret) = maxLength + 3

\* C8 as stated: the sanitized summary neither begins nor ends with white space
C8_SummaryTrimmed ==
    ppc = "done" => ~StartsWithSpace(ret) /\ ~EndsWithSpace(ret)

\* C8 amended: what cleanHTML returns (trimmed before the reserved characters
\* are removed) neither begins nor ends with white space
C8_CleanedTrimmed ==
    ppc = "cleaned" => ~StartsWithSpace(ret) /\ ~EndsWithSpace(ret)

\* C8 witness: cleanHTML was given a text with white space at an end, and
\* returned a non-empty text
C8_Witness ==
    /\ ppc = "cleaned"
    /\ StartsWithSpace(arg) \/ EndsWithSpace(arg)
    /\ ret # <<>>

(***************************************************************************)
(* One item on its own: the body of FetchFeed's loop (fetcher.go:147-153)  *)
(* for items that differ in their date fields, or in their author and      *)
(* description fields.                                                     *)
(***************************************************************************)
BlankItem ==
    [Title |-> "t", Link |-> "l",
     PubDate |-> "", Date |-> "", Published |-> "", Updated |-> "",
     Description |-> <<>>, Summary |-> <<>>, Content |-> <<>>, Encoded |-> <<>>,
     Author |-> "", Creator |-> ""]

DateItems ==
    {[BlankItem EXCEPT !.PubDate = a, !.Date = b, !.Published = c, !.Updated = d] :
        a \in DateStrings, b \in DateStrings, c \in DateStrings, d \in DateStrings}

\* nothing, a tag alone, a reserved character alone, two reserved characters
\* around a space, and a plain word
DescTexts == {<<>>, <<"<", "b", ">">>, <<"*">>, <<"*", " ", "*">>, <<"a", "b">>}

TextItems ==
    {[BlankItem EXCEPT !.Description = a, !.Summary = b, !.Content = c,
                       !.Encoded = d, !.Author = au, !.Creator = cr] :
        a \in DescTexts, b \in DescTexts, c \in DescTexts, d \in DescTexts,
        au \in {"", "Ann"}, cr \in {"", "Bob"}}

ChannelTitles == {"", "Blog"}

InitItem ==
    /\ AggIdle
    /\ ppc = "call"
    /\ arg \in [item : DateItems \cup TextItems, channelTitle : ChannelTitles,
                now : NowValues]
    /\ ret = <<>>

BuildPost ==
    /\ ppc = "call"
    /\ ret' = BlogPost(arg.item, arg.channelTitle, arg.now)
    /\ ppc' = "done"
    /\ UNCHANGED <<arg, aggVars>>

NextItem == BuildPost

SpecItem == InitItem /\ [][NextItem]_vars

\* the date candidates of the item in arg, and the indices of the non-empty
\* and of the parseable ones
ArgDates == dateCandidates(arg.item)

NonEmptyDates == {k \in 1..4 : ArgDates[k] # ""}

ParseableDates == {k \in 1..4 : parsesAny(ArgDates[k])}

\* C4 as stated: when the first non-empty candidate matches no layout the
\* date is the wall-clock time, whatever the later candidates hold
C4_CommitsToFirst ==
    (ppc = "done" /\ NonEmptyDates # {} /\ Min(NonEmptyDates) \notin ParseableDates)
        => ret.Date = arg.now

\* C4 amended: the date is that of the first candidate that is non-empty and
\* matches a layout, and the wall-clock time only when there is no such one
C4_FirstParseable ==
    ppc = "done" =>
        IF ParseableDates = {} THEN ret.Date = arg.now
        ELSE ret.Date = ParseValue(ArgDates[Min(ParseableDates)])

\* C4 witness: the first non-empty candidate matched no layout, a later one
\* did, and the later one was taken
C4_Witness ==
    /\ ppc = "done"
    /\ NonEmptyDates # {}
    /\ Min(NonEmptyDates) \notin ParseableDates
    /\ ParseableDates # {}
    /\ ret.Date = ParseValue(ArgDates[Min(ParseableDates)])
    /\ ret.Date # arg.now

ArgDescs == descCandidates(arg.item)

MaxItems == 2

\* an RSS-shaped item and an Atom-shaped one whose date matches no layout
ItemA ==
    [BlankItem EXCEPT !.Title = "A", !.PubDate = "2023-01-01",
                      !.Description = <<"a", "b">>, !.Author = "Ann"]

ItemB ==
    [BlankItem EXCEPT !.Title = "B", !.Updated = "yesterday", !.Summary = <<"*">>]

FeedItems == {ItemA, ItemB}

FeedTree(title, items, chEntries, entries) ==
    [Channel |-> [Title |-> title, Items |-> items, Entries |-> chEntries],
     Entries |-> entries]

EmptyFeed == FeedTree("", <<>>, <<>>, <<>>)

\* http.Get failed, io.ReadAll failed, xml.Unmarshal failed
FetchErrors == {"fetching", "reading", "parsing"}

ErrorResponses == {[err |-> e, feed |-> EmptyFeed] : e \in FetchErrors}

FeedResponses ==
    {[err |-> "", feed |-> FeedTree(t, a, b, c)] :
        t \in ChannelTitles,
        a \in SeqsUpTo(FeedItems, MaxItems),
        b \in SeqsUpTo(FeedItems, MaxItems),
        c \in SeqsUpTo(FeedItems, MaxItems)}

\* what time.Now() returns for item 1, 2, ...: it never goes back
Clocks(n) ==
    {[k \in 1..n |-> IF k <= j THEN Min(NowValues) ELSE Max(NowValues)] : j \in 0..n}

InitFeed ==
    /\ AggIdle
    /\ ppc = "call"
    /\ arg \in [resp : ErrorResponses \cup FeedResponses, clock : Clocks(MaxItems)]
    /\ ret = <<>>

CallFetchFeed ==
    /\ ppc = "call"
    /\ ret' = FetchFeed(arg.resp, arg.clock)
    /\ ppc' = "done"
    /\ UNCHANGED <<arg, aggVars>>

NextFeed == CallFetchFeed

SpecFeed == InitFeed /\ [][NextFeed]_vars

\* the posts returned are those of the list L, one per item, in order
PostsAreOf(L) ==
    /\ Len(ret.posts) = Len(L)
    /\ \A k \in 1..Len(L) :
           ret.posts[k] = BlogPost(L[k], arg.resp.feed.Channel.Title, arg.clock[k])

\* C7: the posts come from exactly one location: the channel items if there
\* are any, else the entries under the channel if there are any, else the
\* entries under the root
C7_OneLocation ==
    (ppc = "done" /\ arg.resp.err = "") =>
        LET f == arg.resp.feed
        IN  /\ ret.err = ""
            /\ f.Channel.Items # <<>> => PostsAreOf(f.Channel.Items)
            /\ (f.Channel.Items = <<>> /\ f.Channel.Entries # <<>>)
                   => PostsAreOf(f.Channel.Entries)
            /\ (f.Channel.Items = <<>> /\ f.Channel.Entries = <<>>)
                   => PostsAreOf(f.Entries)

\* C7 witness: a feed with two entries, under the root only, gave two posts
C7_Witness ==
    /\ ppc = "done"
    /\ arg.resp.err = ""
    /\ arg.resp.feed.Channel.Items = <<>>
    /\ arg.resp.feed.Channel.Entries = <<>>
    /\ Len(arg.resp.feed.Entries) = 2
    /\ Len(ret.posts) = 2

(***************************************************************************)
(* FetchAllFeeds (fetcher.go:160-191): the calling goroutine and one       *)
(* goroutine per feed URL.                                                 *)
(***************************************************************************)
MaxFeeds == 2

Url(k) == <<"http://feed", k>>

\* RSS items dated 2023-01-01, 2023-06-01 and Mon, 02 Jan 2023 10:00:00 GMT,
\* and an Atom entry dated June 1, 2023 (the instant of ItemC)
ItemC ==
    [BlankItem EXCEPT !.Title = "C", !.PubDate = "2023-06-01T00:00:00Z",
                      !.Description = <<"<", "b", ">", "c">>, !.Creator = "Bob"]

ItemD ==
    [BlankItem EXCEPT !.Title = "D", !.PubDate = "Mon, 02 Jan 2023 10:00:00 GMT",
                      !.Description = <<"d", "!">>]

ItemE ==
    [BlankItem EXCEPT !.Title = "E", !.Published = "June 1, 2023",
                      !.Content = <<"e">>]

\* what a fetch can give in the model of FetchAllFeeds: a failure, an RSS
\* feed of two items, an RSS feed of one item, an Atom feed with one entry
\* under the root, an Atom feed of one entry whose date matches no layout,
\* a document that decodes to a feed without items
AggResponses ==
    {[err |-> "fetching", feed |-> EmptyFeed],
     [err |-> "parsing", feed |-> EmptyFeed],
     [err |-> "", feed |-> EmptyFeed],
     [err |-> "", feed |-> FeedTree("Blog", <<ItemA, ItemC>>, <<>>, <<>>)],
     [err |-> "", feed |-> FeedTree("News", <<ItemD>>, <<>>, <<>>)],
     [err |-> "", feed |-> FeedTree("", <<>>, <<>>, <<ItemE>>)],
     [err |-> "", feed |-> FeedTree("", <<>>, <<ItemB>>, <<>>)]}

Goroutines == 1..Len(feeds)

Init ==
    /\ feeds \in {[k \in 1..n |-> Url(k)] : n \in 0..MaxFeeds}
    /\ mainPc = "loop"
    /\ launched = 0
    /\ wg = 0
    /\ mu = 0
    /\ posts = <<>>
    /\ tpc = [k \in 1..Len(feeds) |-> "idle"]
    /\ feedPosts = [k \in 1..Len(feeds) |-> <<>>]
    /\ failed = [k \in 1..Len(feeds) |-> FALSE]
    /\ logged = {}
    /\ merged = <<>>
    /\ result = <<>>
    /\ ppc = "none"
    /\ arg = <<>>
    /\ ret = <<>>

pureVars == <<ppc, arg, ret>>

\* one iteration of the loop: wg.Add(1) and the go statement (fetcher.go:167-181)
Launch ==
    /\ mainPc = "loop"
    /\ launched < Len(feeds)
    /\ wg' = wg + 1
    /\ tpc' = [tpc EXCEPT ![launched + 1] = "fetch"]
    /\ launched' = launched + 1
    /\ UNCHANGED <<feeds, mainPc, mu, posts, feedPosts, failed, logged, merged,
                   result, pureVars>>

\* the loop ends
LoopExit ==
    /\ mainPc = "loop"
    /\ launched = Len(feeds)
    /\ mainPc' = "wait"
    /\ UNCHANGED <<feeds, launched, wg, mu, posts, tpc, feedPosts, failed, logged,
                   merged, result, pureVars>>

\* a caller that does not wait
wgWaitSkipped == TRUE

\* wg.Wait() returns (fetcher.go:184)
wgWaitReturns == wg = 0

Wait ==
    /\ mainPc = "wait"
    /\ wgWaitReturns
    /\ mainPc' = "sort"
    /\ UNCHANGED <<feeds, launched, wg, mu, posts, tpc, feedPosts, failed, logged,
                   merged, result, pureVars>>

\* a comparison that puts the older post first
lessBefore(a, b) == a.Date < b.Date

\* the less function given to sort.Slice: posts[i].Date.After(posts[j].Date)
less(a, b) == a.Date > b.Date

\* a sort that leaves the slice as it is
SortSliceNone(s) == {s}

\* sort.Slice(s, less): some permutation of s that less puts in order; the
\* sort is not guaranteed to be stable, so every such permutation is possible
SortSlice(s) ==
    {r \in {[k \in 1..Len(s) |-> s[p[k]]] : p \in Permutations(1..Len(s))} :
        \A i \in 1..Len(r) : \A j \in (i + 1)..Len(r) : ~less(r[j], r[i])}

Sort ==
    /\ mainPc = "sort"
    /\ merged' = posts
    /\ posts' \in SortSlice(posts)
    /\ mainPc' = "return"
    /\ UNCHANGED <<feeds, launched, wg, mu, tpc, feedPosts, failed, logged, result,
                   pureVars>>

Return ==
    /\ mainPc = "return"
    /\ result' = posts
    /\ mainPc' = "done"
    /\ UNCHANGED <<feeds, launched, wg, mu, posts, tpc, feedPosts, failed, logged,
                   merged, pureVars>>

\* feedPosts, err := FetchFeed(url) (fetcher.go:172-173)
TaskFetch(k) ==
    /\ tpc[k] = "fetch"
    /\ \E resp \in AggResponses : \E clock \in Clocks(MaxItems) :
           LET r == FetchFeed(resp, clock)
           IN  /\ feedPosts' = [feedPosts EXCEPT ![k] = r.posts]
               /\ failed' = [failed EXCEPT ![k] = (r.err # "")]
               /\ tpc' = [tpc EXCEPT ![k] = IF r.err # "" THEN "log" ELSE "lock"]
    /\ UNCHANGED <<feeds, mainPc, launched, wg, mu, posts, logged, merged, result,
                   pureVars>>

\* log.Printf("err fetching ...") and return (fetcher.go:174-175)
TaskLog(k) ==
    /\ tpc[k] = "log"
    /\ logged' = logged \cup {feeds[k]}
    /\ tpc' = [tpc EXCEPT ![k] = "defer"]
    /\ UNCHANGED <<feeds, mainPc, launched, wg, mu, posts, feedPosts, failed, merged,
                   result, pureVars>>

\* a lock that never blocks
muLockAlways == TRUE

\* mu.Lock() can return
muLockFree == mu = 0

\* mu.Lock() (fetcher.go:178)
TaskLock(k) ==
    /\ tpc[k] = "lock"
    /\ muLockFree
    /\ mu' = k
    /\ tpc' = [tpc EXCEPT ![k] = "append"]
    /\ UNCHANGED <<feeds, mainPc, launched, wg, posts, feedPosts, failed, logged,
                   merged, result, pureVars>>

\* an assignment that drops what the slice held
appendOverwrite(old, batch) == batch

\* append(posts, feedPosts...)
appendPosts(old, batch) == old \o batch

\* posts = append(posts, feedPosts...) (fetcher.go:179)
TaskAppend(k) ==
    /\ tpc[k] = "append"
    /\ posts' = appendPosts(posts, feedPosts[k])
    /\ tpc' = [tpc EXCEPT ![k] = "unlock"]
    /\ UNCHANGED <<feeds, mainPc, launched, wg, mu, feedPosts, failed, logged, merged,
                   result, pureVars>>

\* mu.Unlock() (fetcher.go:180)
TaskUnlock(k) ==
    /\ tpc[k] = "unlock"
    /\ mu' = 0
    /\ tpc' = [tpc EXCEPT ![k] = "defer"]
    /\ UNCHANGED <<feeds, mainPc, launched, wg, posts, feedPosts, failed, logged,
                   merged, result, pureVars>>

\* the deferred wg.Done() (fetcher.go:170)
TaskDone(k) ==
    /\ tpc[k] = "defer"
    /\ wg' = wg - 1
    /\ tpc' = [tpc EXCEPT ![k] = "done"]
    /\ UNCHANGED <<feeds, mainPc, launched, mu, posts, feedPosts, failed, logged,
                   merged, result, pureVars>>

Next ==
    \/ Launch
    \/ LoopExit
    \/ Wait
    \/ Sort
    \/ Return
    \/ \E k \in Goroutines : TaskFetch(k)
    \/ \E k \in Goroutines : TaskLog(k)
    \/ \E k \in Goroutines : TaskLock(k)
    \/ \E k \in Goroutines : TaskAppend(k)
    \/ \E k \in Goroutines : TaskUnlock(k)
    \/ \E k \in Goroutines : TaskDone(k)

Spec == Init /\ [][Next]_vars

(***************************************************************************)
(* Properties of FetchAllFeeds.                                            *)
(***************************************************************************)
BagOfSeq(s) == [x \in Range(s) |-> Cardinality({k \in 1..Len(s) : s[k] = x})]

\* what the goroutines whose FetchFeed succeeded got, feed after feed
SucceededPosts ==
    Flatten([k \in 1..Len(feeds) |-> IF failed[k] THEN <<>> ELSE feedPosts[k]])

\* C1: the posts returned are, as a multiset, those of the goroutines whose
\* FetchFeed succeeded; a failed one gives nothing and takes nothing away
C1_ExactlySucceeded ==
    mainPc = "done" =>
        /\ BagOfSeq(result) = BagOfSeq(SucceededPosts)
        /\ Len(result) = Len(SucceededPosts)
        /\ \A k \in Goroutines : failed[k] => feedPosts[k] = <<>>

\* C1 witness: of two feeds one failed, and was logged, and the other gave
\* its posts, which are all that is returned
C1_Witness ==
    /\ mainPc = "done"
    /\ \E k \in Goroutines : failed[k] /\ feeds[k] \in logged
    /\ \E k \in Goroutines : ~failed[k] /\ feedPosts[k] # <<>> /\ result = feedPosts[k]

\* C2: the sequence returned is sorted by date, newest first
C2_NewestFirst ==
    mainPc = "done" =>
        \A i \in 1..(Len(result) - 1) : result[i].Date >= result[i + 1].Date

\* C2 witness: the goroutines appended an older post before a newer one, and
\* the newer one is returned first
C2_Witness ==
    /\ mainPc = "done"
    /\ Len(merged) >= 2
    /\ merged[1].Date < merged[2].Date
    /\ result[1].Date > result[Len(result)].Date

\* the posts of s dated d, in the order they have in s
DatedAt(s, d) == SelectSeq(s, LAMBDA x : x.Date = d)

C9_FullJoin ==
    mainPc \in {"sort", "return", "done"} =>
        /\ launched = Len(feeds)
        /\ wg = 0
        /\ \A k \in Goroutines : tpc[k] = "done"

\* C9 witness: the caller is about to sort after two goroutines ended, one
\* by failure and one by success
C9_Witness ==
    /\ mainPc = "sort"
    /\ \E k \in Goroutines : tpc[k] = "done" /\ failed[k]
    /\ \E k \in Goroutines : tpc[k] = "done" /\ ~failed[k] /\ feedPosts[k] # <<>>

\* the goroutines between mu.Lock() and mu.Unlock()
InCritical == {k \in Goroutines : tpc[k] \in {"append", "unlock"}}

\* C10: at most one goroutine is in the critical section, and it holds the
\* mutex; it leaves with its whole batch at the end of posts; a goroutine
\* whose fetch failed never gets to the lock
C10_Serialized ==
    /\ Cardinality(InCritical) <= 1
    /\ \A k \in InCritical : mu = k
    /\ \A k \in Goroutines :
           tpc[k] = "unlock" =>
               /\ Len(posts) >= Len(feedPosts[k])
               /\ SubSeq(posts, Len(posts) - Len(feedPosts[k]) + 1, Len(posts))
                      = feedPosts[k]
    /\ \A k \in Goroutines : failed[k] => tpc[k] \in {"log", "defer", "done"}

\* C10 witness: one goroutine has appended its batch and still holds the
\* mutex while another waits for it
C10_Witness ==
    \E k, m \in Goroutines :
        /\ tpc[k] = "unlock" /\ feedPosts[k] # <<>>
        /\ tpc[m] = "lock" /\ mu = k

====
